---- MODULE Spec2Model ----
(***************************************************************************)
(* Model of src/app.py: the message scanner process_excel, the message     *)
(* extraction _extract_messages and the row accounting of the field        *)
(* extractor process_xml_and_populate_xl_sheet.                            *)
(*                                                                         *)
(* Text is a sequence of units.  A unit is a fragment of cell text that    *)
(* the regular expressions of the program can tell apart:                  *)
(*   "a"  the head of an opening tag,          <interco                    *)
(*   "aw" the same head with white space,      < interco                   *)
(*   "e"  the head of a closing tag,           </interco                   *)
(*   "m"  the tail of either tag,              mpanyMessage>               *)
(*   "X"  an XML declaration,                  <?xml ... ?>                *)
(*   "L"  one lineItem element of the order,                               *)
(*   "B"  a large block of other text,                                     *)
(*   "F"  a byte-order mark U+FEFF,                                        *)
(*   " "  white space.                                                     *)
(* An opening tag is a head "a"/"aw" directly followed by "m" in the same  *)
(* string, a closing tag is "e" directly followed by "m"; a tag cut in two *)
(* by a cell boundary is a head at the end of one cell and a tail at the   *)
(* start of the next.                                                      *)
(***************************************************************************)
EXTENDS Integers, Sequences, FiniteSets, TLC

VARIABLES colA, i, current_row, ws_out, written, calls, pc, iters, last

vars == <<colA, i, current_row, ws_out, written, calls, pc, iters, last>>

(* ---------------------------------------------------------------- bounds *)

\* Largest number of input rows of a column.
MaxRows == 5

\* Bytes of the large text block "B"; every other unit counts one byte.
BigBytes == 8

(* ------------------------------------------------------------- constants *)

\* MAX_PARTS of process_excel (1000 in the source), scaled to the row bound.
MAX_PARTS == 4

\* MAX_XML_BYTES of process_excel (8 MiB in the source), scaled to the unit sizes.
MAX_XML_BYTES == 12

\* len(headers) = len(data): the 20 output columns.
NCOLS == 20

\* The columns of `data` that are lists (one value per line item), 1-based.
PerLineCols == {7, 8, 9, 10, 11, 12, 13, 14, 16, 18, 19, 20}

(* ------------------------------------------------------------------ text *)

RECURSIVE Bytes(_)
\* len(raw_xml.encode("utf-8"))
Bytes(s) ==
    IF s = <<>> THEN 0
    ELSE (IF Head(s) = "B" THEN BigBytes ELSE 1) + Bytes(Tail(s))

RECURSIVE Join(_)
\* "".join(parts)
Join(parts) ==
    IF parts = <<>> THEN <<>> ELSE Head(parts) \o Join(Tail(parts))

\* OPEN_TAG_RE matches s at position p.
OpenAt(s, p) ==
    /\ p >= 1
    /\ p + 1 <= Len(s)
    /\ s[p] \in {"a", "aw"}
    /\ s[p + 1] = "m"

\* CLOSE_TAG_RE matches s at position p.
CloseAt(s, p) ==
    /\ p >= 1
    /\ p + 1 <= Len(s)
    /\ s[p] = "e"
    /\ s[p + 1] = "m"

\* OPEN_TAG_RE.search(s) is not None
OPEN_TAG_RE(s) == \E p \in 1..Len(s) : OpenAt(s, p)

\* CLOSE_TAG_RE.search(s) is not None
CLOSE_TAG_RE(s) == \E p \in 1..Len(s) : CloseAt(s, p)

\* "<?xml" in cell
HasXmlDecl(s) == \E p \in 1..Len(s) : s[p] = "X"

\* The first position >= from where an opening tag starts, 0 when none.
FirstOpen(s, from) ==
    LET ps == {p \in from..Len(s) : OpenAt(s, p)}
    IN  IF ps = {} THEN 0 ELSE CHOOSE p \in ps : \A q \in ps : p <= q

\* The first position >= from where a closing tag starts, 0 when none.
FirstClose(s, from) ==
    LET ps == {p \in from..Len(s) : CloseAt(s, p)}
    IN  IF ps = {} THEN 0 ELSE CHOOSE p \in ps : \A q \in ps : p <= q

RECURSIVE FindAll(_, _)
\* pattern.findall(raw): the non-overlapping spans from an opening tag to the
\* nearest following closing tag, left to right, as [lo, hi] positions.
FindAll(s, from) ==
    LET p == FirstOpen(s, from)
        q == IF p = 0 THEN 0 ELSE FirstClose(s, p + 2)
    IN  IF p = 0 \/ q = 0 THEN <<>>
        ELSE <<[lo |-> p, hi |-> q + 1]>> \o FindAll(s, q + 2)

RECURSIVE Strip(_)
\* str.strip(): leading and trailing white space removed.
Strip(s) ==
    IF s = <<>> THEN s
    ELSE IF Head(s) = " " THEN Strip(Tail(s))
    ELSE IF s[Len(s)] = " " THEN Strip(SubSeq(s, 1, Len(s) - 1))
    ELSE s

\* raw.replace(BOM, "")
RemoveBOM(s) == SelectSeq(s, LAMBDA u : u # "F")

RECURSIVE RemoveDecl(_)
\* re.sub(r'\s*<\?xml[^\>]*\?>', '', msg): every declaration goes, with the
\* white space directly before it.
RemoveDecl(s) ==
    IF s = <<>> THEN s
    ELSE LET k == CHOOSE k \in 1..Len(s) :
                    /\ s[k] # " "
                    /\ \A h \in 1..(k - 1) : s[h] = " "
         IN  IF \A h \in 1..Len(s) : s[h] = " " THEN s
             ELSE IF s[k] = "X" THEN RemoveDecl(SubSeq(s, k + 1, Len(s)))
             ELSE SubSeq(s, 1, k) \o RemoveDecl(SubSeq(s, k + 1, Len(s)))

\* The body of the loop over matches: declarations removed, then strip().
Clean(msg) == Strip(RemoveDecl(msg))

\* _extract_messages(raw); the empty sequence stands for the ValueError raised
\* when there is no match.
ExtractMessages(raw) ==
    LET r  == Strip(RemoveBOM(raw))
        ms == FindAll(r, 1)
    IN  [k \in 1..Len(ms) |-> Clean(SubSeq(r, ms[k].lo, ms[k].hi))]

(* ------------------------------------------------------------- extractor *)

\* etree.fromstring(xml_content, parser) gives a root: the recovering parser
\* has no element to give for a start tag whose name does not follow "<".
ParseOk(xml_content) == xml_content # <<>> /\ Head(xml_content) = "a"

\* root.xpath('//purchaseOrder//lineItems//lineItem')
LINE_ITEMS(xml_content) == SelectSeq(xml_content, LAMBDA u : u = "L")

\* The header row written by process_excel before the scan.
HeaderRow == [col \in 1..NCOLS |-> <<"title", col>>]

\* The 20 values written for line item cur_record_num: a list column gives
\* the value of that line item, a scalar column the value of the message.
DataRow(xml_content, cur_record_num) ==
    [col \in 1..NCOLS |->
        IF col \in PerLineCols THEN <<"item", cur_record_num>>
        ELSE <<"head", xml_content>>]

RECURSIVE WriteRows_PerMessage(_, _, _, _, _)
\* WriteRows with current_row advanced once per message, not once per record.
WriteRows_PerMessage(xml_content, sheet, log, row, cur_record_num) ==
    IF cur_record_num >= Len(LINE_ITEMS(xml_content))
    THEN [sheet |-> sheet, log |-> log,
          row |-> IF cur_record_num > 0 THEN row + 1 ELSE row]
    ELSE WriteRows_PerMessage(xml_content,
                   (row :> DataRow(xml_content, cur_record_num)) @@ sheet,
                   Append(log, row), row, cur_record_num + 1)

RECURSIVE WriteRows(_, _, _, _, _)
\* for cur_record_num in range(no_line_items): write the row, current_row += 1
WriteRows(xml_content, sheet, log, row, cur_record_num) ==
    IF cur_record_num >= Len(LINE_ITEMS(xml_content))
    THEN [sheet |-> sheet, log |-> log, row |-> row]
    ELSE WriteRows(xml_content,
                   (row :> DataRow(xml_content, cur_record_num)) @@ sheet,
                   Append(log, row), row + 1, cur_record_num + 1)

\* process_xml_and_populate_xl_sheet(xml_content, xl_sheet, current_row) for a
\* message that parses; .row is the value returned.
process_xml_and_populate_xl_sheet(xml_content, sheet, log, row) ==
    WriteRows(xml_content, sheet, log, row, 0)

\* ForMessages handing only the first message of the chunk to the extractor.
ForMessages_FirstOnly(messages, st) ==
    IF messages = <<>> THEN st
    ELSE LET msg == Head(messages)
             r   == process_xml_and_populate_xl_sheet(msg, st.sheet, st.log, st.row)
         IN  IF ~ParseOk(msg)
             THEN [st EXCEPT !.raised = TRUE,
                             !.calls = Append(@, [msg |-> msg, start |-> st.row,
                                                  ret |-> -1])]
             ELSE [sheet  |-> r.sheet, log |-> r.log, row |-> r.row,
                   calls  |-> Append(st.calls, [msg |-> msg, start |-> st.row,
                                                ret |-> r.row]),
                   raised |-> FALSE]

RECURSIVE ForMessages(_, _)
\* for msg in messages: current_row = process_xml_and_populate_xl_sheet(...)
\* st.raised: a call raised (root is None at root.xpath), which ends the loop.
ForMessages(messages, st) ==
    IF messages = <<>> \/ st.raised THEN st
    ELSE LET msg == Head(messages)
             r   == process_xml_and_populate_xl_sheet(msg, st.sheet, st.log, st.row)
         IN  IF ~ParseOk(msg)
             THEN [st EXCEPT !.raised = TRUE,
                             !.calls = Append(@, [msg |-> msg, start |-> st.row,
                                                  ret |-> -1])]
             ELSE ForMessages(Tail(messages),
                     [sheet  |-> r.sheet, log |-> r.log, row |-> r.row,
                      calls  |-> Append(st.calls, [msg |-> msg, start |-> st.row,
                                                   ret |-> r.row]),
                      raised |-> FALSE])

(* ---------------------------------------------------------------- scanner *)

n == Len(colA)

\* colA[k] or "" with the 0-based index of the source.
Cell(k) == colA[k + 1]

has_open == OPEN_TAG_RE(Cell(i))

has_close == CLOSE_TAG_RE(Cell(i))

\* HasIndicator with a closing tag taken for an indicator as well.
HasIndicator_AnyTag == has_open \/ has_close \/ HasXmlDecl(Cell(i))

\* if has_open or ("<?xml" in cell)
HasIndicator == has_open \/ HasXmlDecl(Cell(i))

RECURSIVE ScanForward(_, _)
\* The inner while loop: parts grow until a cell with a closing tag, the end
\* of the column, or more than MAX_PARTS parts (break, j not advanced).
ScanForward(j, parts) ==
    IF j < n /\ ~CLOSE_TAG_RE(Cell(j))
    THEN LET grown == Append(parts, Cell(j))
         IN  IF Len(grown) > MAX_PARTS
             THEN [j |-> j, parts |-> grown, capped |-> TRUE]
             ELSE ScanForward(j + 1, grown)
    ELSE [j |-> j, parts |-> parts, capped |-> FALSE]

\* parts = [cell]; j = i + 1; while ...
Scanned == ScanForward(i + 1, <<Cell(i)>>)

\* parts.append(colA[j]); raw_xml = "".join(parts)
MultiRaw == Join(Append(Scanned.parts, Cell(Scanned.j)))

\* The state of the messages loop before its first call.
LoopStart ==
    [sheet |-> ws_out, log |-> written, row |-> current_row, calls |-> calls,
     raised |-> FALSE]

(* ----------------------------------------------------------------- inputs *)

\* Well-formed messages with 0, 1 and 2 line items.
Msg0 == <<"a", "m", "e", "m">>

Msg1 == <<"a", "m", "L", "e", "m">>

Msg2 == <<"a", "m", "L", "L", "e", "m">>

\* A message whose start tag has white space after "<".
BadMsg == <<"aw", "m", "L", "e", "m">>

\* A message of MAX_XML_BYTES + 1 bytes, and one of exactly MAX_XML_BYTES.
BigMsg == <<"a", "m", "B", "L", "e", "m">>

EdgeMsg == <<"a", "m", "B", "e", "m">>

\* The texts of whole input columns.
Docs ==
    { Msg2,
      Msg0,
      Msg1 \o Msg2,
      BadMsg \o Msg1,
      BigMsg \o Msg1,
      EdgeMsg,
      <<"F", "X", "a", "m", " ", "X", "L", "e", "m">>,
      <<"a", "m">> \o Msg1,
      <<"a", "m", "L">>,
      <<"X", "L", "e", "m">> }

RECURSIVE Splits(_, _)
\* Every way to cut text d into k consecutive cells (cells may be empty).
Splits(d, k) ==
    IF k = 1 THEN {<<d>>}
    ELSE UNION { { <<SubSeq(d, 1, c)>> \o rest :
                     rest \in Splits(SubSeq(d, c + 1, Len(d)), k - 1) } :
                 c \in 0..Len(d) }

\* colA as read from the input sheet.
Columns == UNION { Splits(d, k) : d \in Docs, k \in 1..MaxRows }

(* ---------------------------------------------------------------- actions *)

\* What the last iteration of the outer loop did (history, for the claims);
\* overcap: some iteration so far met the part cap or the byte cap.
Iteration(branch, j, raw, tried, capped, loop) ==
    [branch |-> branch, from |-> i, j |-> j, raw |-> raw, tried |-> tried,
     capped |-> capped, row0 |-> current_row,
     ncalls |-> Len(loop.calls) - Len(calls), prev |-> last.branch,
     overcap |-> (last.overcap \/ capped
                    \/ branch \in {"same_oversize", "multi_oversize"})]

Init ==
    /\ colA \in Columns
    /\ i = 0
    /\ current_row = 2
    /\ ws_out = (1 :> HeaderRow)
    /\ written = <<>>
    /\ calls = <<>>
    /\ pc = "scan"
    /\ iters = 0
    /\ last = [branch |-> "none", from |-> 0, j |-> 0, raw |-> <<>>,
               tried |-> FALSE, capped |-> FALSE, row0 |-> 2, ncalls |-> 0,
               prev |-> "none", overcap |-> FALSE]

\* An iteration that only moves the row cursor to `to`.
Skip(to, rec) ==
    /\ i' = to
    /\ iters' = iters + 1
    /\ last' = rec
    /\ UNCHANGED <<colA, current_row, ws_out, written, calls, pc>>

\* An iteration whose messages loop ran to its end.
Processed(to, loop, rec) ==
    /\ i' = to
    /\ iters' = iters + 1
    /\ current_row' = loop.row
    /\ ws_out' = loop.sheet
    /\ written' = loop.log
    /\ calls' = loop.calls
    /\ last' = rec
    /\ UNCHANGED <<colA, pc>>

\* An iteration left by an exception of the messages loop: process_excel has
\* no handler around it, the exception leaves the function.
Raised(loop, rec) ==
    /\ pc' = "aborted"
    /\ iters' = iters + 1
    /\ ws_out' = loop.sheet
    /\ written' = loop.log
    /\ calls' = loop.calls
    /\ last' = rec
    /\ UNCHANGED <<colA, i, current_row>>

\* else: i += 1
NoIndicator ==
    /\ pc = "scan" /\ i < n
    /\ ~HasIndicator
    /\ Skip(i + 1, Iteration("no_indicator", i, <<>>, FALSE, FALSE, LoopStart))

\* Same cell, chunk over MAX_XML_BYTES.
SameCellOversize ==
    /\ pc = "scan" /\ i < n
    /\ HasIndicator /\ has_open /\ has_close
    /\ Bytes(Cell(i)) > MAX_XML_BYTES
    /\ Skip(i + 1, Iteration("same_oversize", i, Cell(i), FALSE, FALSE, LoopStart))

\* Same cell, _extract_messages raises ValueError.
SameCellNoMessages ==
    /\ pc = "scan" /\ i < n
    /\ HasIndicator /\ has_open /\ has_close
    /\ Bytes(Cell(i)) <= MAX_XML_BYTES
    /\ ExtractMessages(Cell(i)) = <<>>
    /\ Skip(i + 1, Iteration("same_nomsg", i, Cell(i), TRUE, FALSE, LoopStart))

\* Same cell, every message extracted.
SameCellSuccess ==
    /\ pc = "scan" /\ i < n
    /\ HasIndicator /\ has_open /\ has_close
    /\ Bytes(Cell(i)) <= MAX_XML_BYTES
    /\ ExtractMessages(Cell(i)) # <<>>
    /\ LET loop == ForMessages(ExtractMessages(Cell(i)), LoopStart)
       IN  /\ ~loop.raised
           /\ Processed(i + 1, loop,
                        Iteration("same_success", i, Cell(i), TRUE, FALSE, loop))

\* Same cell, a call of the extractor raises.
SameCellRaise ==
    /\ pc = "scan" /\ i < n
    /\ HasIndicator /\ has_open /\ has_close
    /\ Bytes(Cell(i)) <= MAX_XML_BYTES
    /\ ExtractMessages(Cell(i)) # <<>>
    /\ LET loop == ForMessages(ExtractMessages(Cell(i)), LoopStart)
       IN  /\ loop.raised
           /\ Raised(loop, Iteration("same_raise", i, Cell(i), TRUE, FALSE, loop))

\* Multi-row, the column ends before a closing tag: if j >= n.
MultiIncomplete ==
    /\ pc = "scan" /\ i < n
    /\ HasIndicator /\ ~(has_open /\ has_close)
    /\ Scanned.j >= n
    /\ Skip(i + 1, Iteration("incomplete", Scanned.j, <<>>, FALSE,
                             Scanned.capped, LoopStart))

\* MultiOversize resuming at i + 1, as the same-cell branch does.
MultiOversize_NextRow ==
    /\ pc = "scan" /\ i < n
    /\ HasIndicator /\ ~(has_open /\ has_close)
    /\ Scanned.j < n
    /\ Bytes(MultiRaw) > MAX_XML_BYTES
    /\ Skip(i + 1, Iteration("multi_oversize", Scanned.j, MultiRaw, FALSE,
                             Scanned.capped, LoopStart))

\* Multi-row, chunk over MAX_XML_BYTES.
MultiOversize ==
    /\ pc = "scan" /\ i < n
    /\ HasIndicator /\ ~(has_open /\ has_close)
    /\ Scanned.j < n
    /\ Bytes(MultiRaw) > MAX_XML_BYTES
    /\ Skip(Scanned.j + 1, Iteration("multi_oversize", Scanned.j, MultiRaw, FALSE,
                                     Scanned.capped, LoopStart))

\* Multi-row, _extract_messages raises ValueError.
MultiNoMessages ==
    /\ pc = "scan" /\ i < n
    /\ HasIndicator /\ ~(has_open /\ has_close)
    /\ Scanned.j < n
    /\ Bytes(MultiRaw) <= MAX_XML_BYTES
    /\ ExtractMessages(MultiRaw) = <<>>
    /\ Skip(Scanned.j + 1, Iteration("multi_nomsg", Scanned.j, MultiRaw, TRUE,
                                     Scanned.capped, LoopStart))

\* Multi-row, every message extracted.
MultiSuccess ==
    /\ pc = "scan" /\ i < n
    /\ HasIndicator /\ ~(has_open /\ has_close)
    /\ Scanned.j < n
    /\ Bytes(MultiRaw) <= MAX_XML_BYTES
    /\ ExtractMessages(MultiRaw) # <<>>
    /\ LET loop == ForMessages(ExtractMessages(MultiRaw), LoopStart)
       IN  /\ ~loop.raised
           /\ Processed(Scanned.j + 1, loop,
                        Iteration("multi_success", Scanned.j, MultiRaw, TRUE,
                                  Scanned.capped, loop))

\* Multi-row, a call of the extractor raises.
MultiRaise ==
    /\ pc = "scan" /\ i < n
    /\ HasIndicator /\ ~(has_open /\ has_close)
    /\ Scanned.j < n
    /\ Bytes(MultiRaw) <= MAX_XML_BYTES
    /\ ExtractMessages(MultiRaw) # <<>>
    /\ LET loop == ForMessages(ExtractMessages(MultiRaw), LoopStart)
       IN  /\ loop.raised
           /\ Raised(loop, Iteration("multi_raise", Scanned.j, MultiRaw, TRUE,
                                     Scanned.capped, loop))

\* while i < n ends; the workbook is saved.
Finish ==
    /\ pc = "scan" /\ i >= n
    /\ pc' = "done"
    /\ UNCHANGED <<colA, i, current_row, ws_out, written, calls, iters, last>>

Next ==
    \/ NoIndicator
    \/ SameCellOversize
    \/ SameCellNoMessages
    \/ SameCellSuccess
    \/ SameCellRaise
    \/ MultiIncomplete
    \/ MultiOversize
    \/ MultiNoMessages
    \/ MultiSuccess
    \/ MultiRaise
    \/ Finish

Spec == Init /\ [][Next]_vars

TypeOK ==
    /\ i \in 0..(n + 1)
    /\ pc \in {"scan", "done", "aborted"}
    /\ current_row >= 2

(* ----------------------------------------------------- notions of the claims *)

\* The text of rows lo..hi (0-based, inclusive) of the input column.
RowsText(lo, hi) == Join(SubSeq(colA, lo + 1, hi + 1))

\* The 0-based row holding position pos of the text of rows from..n-1.
RowOfPos(from, pos) ==
    CHOOSE k \in from..(n - 1) :
        /\ Len(RowsText(from, k - 1)) < pos
        /\ pos <= Len(RowsText(from, k))

\* The messages of the text of rows from..n-1, as spans of that text.
SpansFrom(from) == FindAll(RowsText(from, n - 1), 1)

\* Both tags of span sp (of the text of rows from..) lie wholly inside one cell.
TagsWhole(from, sp) ==
    /\ RowOfPos(from, sp.lo) = RowOfPos(from, sp.lo + 1)
    /\ RowOfPos(from, sp.hi - 1) = RowOfPos(from, sp.hi)

\* The rows a span covers stay within the part cap and the byte cap.
WithinCaps(from, sp) ==
    LET r0 == RowOfPos(from, sp.lo)
        r1 == RowOfPos(from, sp.hi)
    IN  /\ r1 - r0 <= MAX_PARTS
        /\ Bytes(RowsText(r0, r1)) <= MAX_XML_BYTES

\* The message text a span of the text of rows from.. stands for.
SpanMsg(from, sp) == Clean(RemoveBOM(SubSeq(RowsText(from, n - 1), sp.lo, sp.hi)))

\* How many calls of the extractor were given message m.
TimesHanded(m) == Cardinality({c \in 1..Len(calls) : calls[c].msg = m})

\* The index of the first call given message m.
FirstHanded(m) ==
    CHOOSE c \in 1..Len(calls) :
        /\ calls[c].msg = m
        /\ \A d \in 1..(c - 1) : calls[d].msg # m

\* The calls made by the last iteration.
LastCalls == SubSeq(calls, Len(calls) - last.ncalls + 1, Len(calls))

\* The state of a scan that has processed nothing yet.
FreshLoop ==
    [sheet |-> (1 :> HeaderRow), log |-> <<>>, row |-> 2, calls |-> <<>>,
     raised |-> FALSE]

(* ------------------------------------------------------------------ claims *)

\* C1: when the scan is over and no chunk met a cap, every message of the column text whose tags
\* each lie inside one cell and whose rows stay within the caps has been
\* handed to the extractor exactly once, and in document order.
C1_EveryMessageHandedOnce ==
    (pc = "done" /\ ~last.overcap) =>
        LET sps  == SpansFrom(0)
            good == {k \in 1..Len(sps) : TagsWhole(0, sps[k]) /\ WithinCaps(0, sps[k])}
        IN  /\ \A k \in good : TimesHanded(SpanMsg(0, sps[k])) = 1
            /\ \A k, h \in good :
                 k < h => FirstHanded(SpanMsg(0, sps[k])) < FirstHanded(SpanMsg(0, sps[h]))

\* C2: an iteration in which a call of the extractor failed still passes every
\* message of its chunk to the extractor, moves the row cursor on and leaves
\* the scan running.
C2_FailureSkipsOnlyThatMessage ==
    (\E c \in 1..Len(LastCalls) : LastCalls[c].ret = -1) =>
        /\ pc # "aborted"
        /\ last.ncalls = Len(ExtractMessages(last.raw))
        /\ i > last.from

\* C3: every iteration leaves the row cursor strictly greater than it found
\* it, and the scan ends with i >= n after at most n iterations.
C3_ForwardProgress ==
    /\ iters > 0 => i > last.from
    /\ iters <= n
    /\ pc # "scan" => i >= n

\* C4: a well-formed message cut at any four points into 5 cells gives the
\* calls and the output sheet of the same message in a single cell.
C4_SplitEqualsSingleCell ==
    (pc = "done" /\ n = 5 /\ Join(colA) \in {Msg0, Msg1, Msg2}) =>
        LET single == ForMessages(ExtractMessages(Join(colA)), FreshLoop)
        IN  /\ calls = single.calls
            /\ ws_out = single.sheet
            /\ current_row = single.row

\* C5: an iteration whose chunk holds two messages, each of which the
\* extractor accepts, calls the extractor once for each, in order, the second
\* call starting at the row the first returned, and adds as many rows as the
\* two messages have line items, those of the first before those of the second.
C5_SiblingsBothExtracted ==
    (last.tried /\ Len(ExtractMessages(last.raw)) = 2
       /\ \A k \in 1..2 : ParseOk(ExtractMessages(last.raw)[k])) =>
        LET ms == ExtractMessages(last.raw)
        IN  /\ last.ncalls = 2
            /\ LastCalls[1].msg = ms[1]
            /\ LastCalls[2].msg = ms[2]
            /\ LastCalls[1].start = last.row0
            /\ LastCalls[1].ret = last.row0 + Len(LINE_ITEMS(ms[1]))
            /\ LastCalls[2].start = LastCalls[1].ret
            /\ current_row = last.row0 + Len(LINE_ITEMS(ms[1])) + Len(LINE_ITEMS(ms[2]))
            /\ \A r \in last.row0..(current_row - 1) :
                  ws_out[r][1] = <<"head", IF r < LastCalls[1].ret THEN ms[1] ELSE ms[2]>>

\* A multi-row chunk with a 1-item and a 2-item message has just been
\* processed and three rows were added.
C5_Witness ==
    /\ last.branch = "multi_success"
    /\ ExtractMessages(last.raw) = <<Msg1, Msg2>>
    /\ last.ncalls = 2
    /\ current_row = last.row0 + 3

\* Row r starts with a well-formed message: its opening tag opens the cell,
\* both tags lie inside one cell each, it parses, and its rows are within caps.
StartsWellFormed(r) ==
    /\ r < n
    /\ Cell(r) # <<>>
    /\ SpansFrom(r) # <<>>
    /\ LET sp == SpansFrom(r)[1]
       IN  /\ sp.lo = 1
           /\ TagsWhole(r, sp)
           /\ WithinCaps(r, sp)
           /\ ParseOk(SpanMsg(r, sp))

\* C6: a chunk over the byte cap is not extracted, leaves the output cursor
\* alone and moves the row cursor to the row after its last cell; a
\* well-formed message starting in that very row is extracted by the
\* iteration that follows.
C6_OversizeSkipped ==
    /\ (iters > 0 /\ Bytes(last.raw) > MAX_XML_BYTES) =>
          /\ ~last.tried
          /\ last.ncalls = 0
          /\ current_row = last.row0
          /\ i = last.j + 1
          /\ pc # "aborted"
    /\ (last.prev \in {"same_oversize", "multi_oversize"}
          /\ StartsWellFormed(last.from)) =>
          LET m == SpanMsg(last.from, SpansFrom(last.from)[1])
          IN  /\ last.ncalls >= 1
              /\ LastCalls[1].msg = m
              /\ LastCalls[1].ret = last.row0 + Len(LINE_ITEMS(m))

\* A multi-row chunk was skipped as oversized and the message starting in the
\* next row has just been extracted.
C6_Witness ==
    /\ last.prev = "multi_oversize"
    /\ StartsWellFormed(last.from)
    /\ last.ncalls = 1
    /\ current_row > last.row0

\* The rows call c of the extractor wrote, in order.
RowsOfCall(c) ==
    IF calls[c].ret = -1 THEN <<>>
    ELSE [k \in 1..(calls[c].ret - calls[c].start) |-> calls[c].start + k - 1]

\* C7: a call on a message with N line items writes rows start .. start+N-1,
\* all 20 columns, in line-item order, and returns start+N (nothing when
\* N = 0); the data rows of a scan begin at row 2, are contiguous, leave the
\* header row alone and are each written once.
C7_RowAccounting ==
    /\ \A c \in 1..Len(calls) :
          calls[c].ret # -1 =>
            /\ calls[c].ret = calls[c].start + Len(LINE_ITEMS(calls[c].msg))
            /\ \A k \in 0..(Len(LINE_ITEMS(calls[c].msg)) - 1) :
                  /\ DOMAIN ws_out[calls[c].start + k] = 1..20
                  /\ \A col \in 1..20 :
                        ws_out[calls[c].start + k][col] =
                            IF col \in PerLineCols THEN <<"item", k>>
                            ELSE <<"head", calls[c].msg>>
    /\ written = Join([c \in 1..Len(calls) |-> RowsOfCall(c)])
    /\ \A k \in 1..Len(written) : written[k] = k + 1
    /\ DOMAIN ws_out = 1..(Len(written) + 1)
    /\ ws_out[1] = HeaderRow
    /\ pc # "aborted" => current_row = Len(written) + 2

\* Two messages, with 1 and 2 line items, have been written as rows 2..4.
C7_Witness ==
    /\ pc = "done"
    /\ Len(calls) = 2
    /\ calls[1].ret - calls[1].start = 1
    /\ calls[2].ret - calls[2].start = 2
    /\ written = <<2, 3, 4>>

\* C8: an iteration on a row with neither an opening tag nor an XML
\* declaration starts no chunk, extracts nothing, calls no extractor, leaves
\* the output cursor alone and moves the row cursor on by exactly 1.
C8_NoIndicatorRow ==
    (iters > 0 /\ ~OPEN_TAG_RE(Cell(last.from)) /\ ~HasXmlDecl(Cell(last.from))) =>
        /\ last.raw = <<>>
        /\ ~last.tried
        /\ last.ncalls = 0
        /\ current_row = last.row0
        /\ i = last.from + 1

\* The cursor has just passed a row that holds a closing tag but no opening
\* indicator, after rows were already written.
C8_Witness ==
    /\ iters > 0
    /\ ~OPEN_TAG_RE(Cell(last.from))
    /\ ~HasXmlDecl(Cell(last.from))
    /\ CLOSE_TAG_RE(Cell(last.from))
    /\ current_row > 2

\* C9: an iteration that met the part cap attempts no message extraction,
\* calls no extractor and resumes at the row after its first row.
C9_PartCapAbandons ==
    last.capped =>
        /\ ~last.tried
        /\ last.ncalls = 0
        /\ i = last.from + 1

\* C10: a chunk passed to message extraction that starts at a cell with an
\* opening tag ends at the first cell at or after it with a closing tag, and
\* the forward scan has taken no later cell with another opening tag into it.
C10_ChunkBoundary ==
    (last.tried /\ OPEN_TAG_RE(Cell(last.from)) /\ ~last.capped) =>
        /\ CLOSE_TAG_RE(Cell(last.j))
        /\ \A k \in last.from..(last.j - 1) : ~CLOSE_TAG_RE(Cell(k))
        /\ \A k \in (last.from + 1)..(last.j - 1) : ~OPEN_TAG_RE(Cell(k))

====
